---------------------------- MODULE Spec2Model ----------------------------
(***************************************************************************)
(* Model of the 2D raster-triangle core (RasterTriangle2D) and of          *)
(* RGBColor::Add.                                                          *)
(*                                                                         *)
(* A C++ float is modelled by an exact rational <<n, d>> (d > 0, lowest    *)
(* terms): the properties below are statements of exact arithmetic, and    *)
(* rounding, overflow to infinity and NaN are outside the model.  An       *)
(* 8-bit channel keeps its width (arithmetic modulo 2^8).                  *)
(***************************************************************************)
EXTENDS Integers, FiniteSets, Sequences, TLC

VARIABLES pc, tri, calculated, call, rgb, sum

vars == <<pc, tri, calculated, call, rgb, sum>>

(***************************************************************************)
(* float                                                                   *)
(***************************************************************************)
RECURSIVE GCD(_, _)
GCD(a, b) ==
    IF b = 0 THEN a ELSE GCD(b, a % b)

IAbs(n) ==
    IF n < 0 THEN -n ELSE n

Frac(n, d) ==
    LET s == IF d < 0 THEN -1 ELSE 1
        g == GCD(IAbs(n), IAbs(d))
    IN  <<(s * n) \div g, (s * d) \div g>>

F(n) ==
    <<n, 1>>

FAdd(a, b) ==
    Frac(a[1] * b[2] + b[1] * a[2], a[2] * b[2])

FSub(a, b) ==
    Frac(a[1] * b[2] - b[1] * a[2], a[2] * b[2])

FMul(a, b) ==
    Frac(a[1] * b[1], a[2] * b[2])

FDiv(a, b) ==
    Frac(a[1] * b[2], a[2] * b[1])

FLt(a, b) ==
    a[1] * b[2] < b[1] * a[2]

FGt(a, b) ==
    FLt(b, a)

FLe(a, b) ==
    ~FLt(b, a)

FGe(a, b) ==
    ~FLt(a, b)

(***************************************************************************)
(* Mathematics                                                             *)
(***************************************************************************)
EPSILON ==
    Frac(1, 1000)

FAbs(x) ==
    IF x[1] < 0 THEN <<-x[1], x[2]>> ELSE x

Min(a, b, c) ==
    LET m == IF FLt(a, b) THEN a ELSE b
    IN  IF FLt(m, c) THEN m ELSE c

Max(a, b, c) ==
    LET m == IF FGt(a, b) THEN a ELSE b
    IN  IF FGt(m, c) THEN m ELSE c

Constrain(value, minimum, maximum) ==
    IF value > maximum THEN maximum
    ELSE IF value < minimum THEN minimum
    ELSE value

(***************************************************************************)
(* Vector2D, Vector3D, Quaternion, Rectangle2D                             *)
(***************************************************************************)
Vector2D(x, y) ==
    [X |-> x, Y |-> y]

V2Sub(a, b) ==
    Vector2D(FSub(a.X, b.X), FSub(a.Y, b.Y))

Vector3D(x, y, z) ==
    [X |-> x, Y |-> y, Z |-> z]

V3Sub(a, b) ==
    Vector3D(FSub(a.X, b.X), FSub(a.Y, b.Y), FSub(a.Z, b.Z))

V3Div(a, b) ==
    Vector3D(FDiv(a.X, b.X), FDiv(a.Y, b.Y), FDiv(a.Z, b.Z))

Quaternion(w, x, y, z) ==
    [W |-> w, X |-> x, Y |-> y, Z |-> z]

\* Hamilton product a * b.
Multiply(a, b) ==
    Quaternion(
        FSub(FSub(FSub(FMul(a.W, b.W), FMul(a.X, b.X)), FMul(a.Y, b.Y)), FMul(a.Z, b.Z)),
        FSub(FAdd(FAdd(FMul(a.W, b.X), FMul(a.X, b.W)), FMul(a.Y, b.Z)), FMul(a.Z, b.Y)),
        FAdd(FAdd(FSub(FMul(a.W, b.Y), FMul(a.X, b.Z)), FMul(a.Y, b.W)), FMul(a.Z, b.X)),
        FAdd(FSub(FAdd(FMul(a.W, b.Z), FMul(a.X, b.Y)), FMul(a.Y, b.X)), FMul(a.Z, b.W)))

Conjugate(q) ==
    Quaternion(q.W, FSub(F(0), q.X), FSub(F(0), q.Y), FSub(F(0), q.Z))

\* Rotation of v by the unit quaternion q: the vector part of q * (0, v) * q^-1.
RotateVector(q, v) ==
    LET r == Multiply(Multiply(q, Quaternion(F(0), v.X, v.Y, v.Z)), Conjugate(q))
    IN  Vector3D(r.X, r.Y, r.Z)

\* Axis-aligned rectangle given by its minimum and maximum corners.
Rectangle2D(min, max) ==
    [min |-> min, max |-> max]

\* Closed axis-aligned intersection test of two rectangles.
RectOverlaps(a, b) ==
    /\ FLe(a.min.X, b.max.X)
    /\ FLe(b.min.X, a.max.X)
    /\ FLe(a.min.Y, b.max.Y)
    /\ FLe(b.min.Y, a.max.Y)

(***************************************************************************)
(* RasterTriangle2D                                                        *)
(***************************************************************************)
\* Denominator without the reset to 0: a small determinant is kept as it is.
Denominator_KeepsSmallDet(v0, v1) ==
    LET denominator == FSub(FMul(v0.X, v1.Y), FMul(v1.X, v0.Y))
    IN  IF FGt(FAbs(denominator), EPSILON)
        THEN FDiv(F(1), denominator)
        ELSE denominator

\* Lines 51-57: the stored inverse of the 2D determinant, 0 when degenerate.
Denominator(v0, v1) ==
    LET denominator == FSub(FMul(v0.X, v1.Y), FMul(v1.X, v0.Y))
    IN  IF FGt(FAbs(denominator), EPSILON)
        THEN FDiv(F(1), denominator)
        ELSE F(0)

\* Bounds with the third vertex left out of maxY.
Bounds_MaxOfTwo(p1, p2, p3) ==
    LET minX == Min(p1.X, p2.X, p3.X)
        minY == Min(p1.Y, p2.Y, p3.Y)
        maxX == Max(p1.X, p2.X, p3.X)
        maxY == Max(p1.Y, p2.Y, p2.Y)
    IN  Rectangle2D(Vector2D(minX, minY), Vector2D(maxX, maxY))

\* Bounds with the two corners handed to Rectangle2D in the wrong order.
Bounds_MinMaxSwapped(p1, p2, p3) ==
    LET minX == Min(p1.X, p2.X, p3.X)
        minY == Min(p1.Y, p2.Y, p3.Y)
        maxX == Max(p1.X, p2.X, p3.X)
        maxY == Max(p1.Y, p2.Y, p3.Y)
    IN  Rectangle2D(Vector2D(maxX, maxY), Vector2D(minX, minY))

\* Lines 61-65: the axis-aligned bounding box of the three vertices.
Bounds(p1, p2, p3) ==
    LET minX == Min(p1.X, p2.X, p3.X)
        minY == Min(p1.Y, p2.Y, p3.Y)
        maxX == Max(p1.X, p2.X, p3.X)
        maxY == Max(p1.Y, p2.Y, p3.Y)
    IN  Rectangle2D(Vector2D(minX, minY), Vector2D(maxX, maxY))

\* CalculateBoundsAndDenominator taking the denominator from the edge vectors
\* cached by the previous call.
CalculateBoundsAndDenominator_StaleEdges(t) ==
    LET v0 == V2Sub(t.p2, t.p1)
        v1 == V2Sub(t.p3, t.p1)
    IN  [t EXCEPT !.v0 = v0,
                  !.v1 = v1,
                  !.denominator = Denominator(t.v0, t.v1),
                  !.bounds = Bounds(t.p1, t.p2, t.p3)]

CalculateBoundsAndDenominator(t) ==
    LET v0 == V2Sub(t.p2, t.p1)
        v1 == V2Sub(t.p3, t.p1)
    IN  [t EXCEPT !.v0 = v0,
                  !.v1 = v1,
                  !.denominator = Denominator(v0, v1),
                  !.bounds = Bounds(t.p1, t.p2, t.p3)]

\* The default constructor: null references, zero vertices (Triangle2D()),
\* denominator 0 and the unit rectangle as bounds.
DefaultTriangle ==
    [t3 |-> <<>>, normal |-> "nullptr", material |-> "nullptr",
     uv |-> "nullptr", hasUV |-> FALSE,
     p1 |-> Vector2D(F(0), F(0)), p2 |-> Vector2D(F(0), F(0)), p3 |-> Vector2D(F(0), F(0)),
     v0 |-> Vector2D(F(0), F(0)), v1 |-> Vector2D(F(0), F(0)),
     averageDepth |-> F(0), denominator |-> F(0),
     bounds |-> Rectangle2D(Vector2D(F(0), F(0)), Vector2D(F(1), F(1)))]

\* Projected with the two rotations composed in the other order.
Projected_LookFirst(camTransform, lookDirection, vertex) ==
    LET inverseCamRotation == Conjugate(Multiply(lookDirection, camTransform.rotation))
    IN  V3Div(RotateVector(inverseCamRotation, V3Sub(vertex, camTransform.position)),
              camTransform.scale)

\* Lines 27-30: one source vertex in camera space.
Projected(camTransform, lookDirection, vertex) ==
    LET inverseCamRotation == Conjugate(Multiply(camTransform.rotation, lookDirection))
    IN  V3Div(RotateVector(inverseCamRotation, V3Sub(vertex, camTransform.position)),
              camTransform.scale)

\* Line 38: the mean of the three camera-space depths.
AverageDepth(projectedP1, projectedP2, projectedP3) ==
    FDiv(FAdd(FAdd(projectedP1.Z, projectedP2.Z), projectedP3.Z), F(3))

\* The projecting constructor.  The UV references are assigned only when the
\* source has UVs; they are never read by the operations modelled here.
ProjectedTriangle(camTransform, lookDirection, sourceTriangle, mat) ==
    LET projectedP1 == Projected(camTransform, lookDirection, sourceTriangle.p1)
        projectedP2 == Projected(camTransform, lookDirection, sourceTriangle.p2)
        projectedP3 == Projected(camTransform, lookDirection, sourceTriangle.p3)
    IN  CalculateBoundsAndDenominator(
            [t3 |-> <<sourceTriangle.p1, sourceTriangle.p2, sourceTriangle.p3>>,
             normal |-> "normal", material |-> mat,
             uv |-> IF sourceTriangle.hasUV THEN "uv" ELSE "unset",
             hasUV |-> sourceTriangle.hasUV,
             p1 |-> Vector2D(projectedP1.X, projectedP1.Y),
             p2 |-> Vector2D(projectedP2.X, projectedP2.Y),
             p3 |-> Vector2D(projectedP3.X, projectedP3.Y),
             v0 |-> Vector2D(F(0), F(0)), v1 |-> Vector2D(F(0), F(0)),
             averageDepth |-> AverageDepth(projectedP1, projectedP2, projectedP3),
             denominator |-> F(0),
             bounds |-> Rectangle2D(Vector2D(F(0), F(0)), Vector2D(F(1), F(1)))])

\* The result of GetBarycentricCoords(x, y, u, v, w) on t: the return value
\* and the contents of the caller's u, v, w afterwards (uIn, vIn, wIn before).
GetBarycentricCoords(t, x, y, uIn, vIn, wIn) ==
    IF FLt(FAbs(t.denominator), EPSILON)
    THEN [ret |-> FALSE, written |-> FALSE, u |-> uIn, v |-> vIn, w |-> wIn]
    ELSE LET v2 == V2Sub(Vector2D(x, y), t.p1)
             v == FMul(FSub(FMul(v2.X, t.v1.Y), FMul(t.v1.X, v2.Y)), t.denominator)
             w == FMul(FSub(FMul(t.v0.X, v2.Y), FMul(v2.X, t.v0.Y)), t.denominator)
             u == FSub(FSub(F(1), v), w)
         IN  [ret |-> FGe(v, F(0)) /\ FGe(w, F(0)) /\ FGe(u, F(0)),
              written |-> TRUE, u |-> u, v |-> v, w |-> w]

Overlaps(t, otherBounds) ==
    RectOverlaps(t.bounds, otherBounds)

(***************************************************************************)
(* RGBColor                                                                *)
(***************************************************************************)
\* Conversion of an int to uint8_t.
Uint8(n) ==
    n % 256

\* Lines 135-139: the RGB565 packing of the three 8-bit channels,
\* (r >> 3) << 11 | (g >> 2) << 5 | (b >> 3); the three fields do not overlap.
Pack(r, g, b) ==
    ((r \div 8) * 2048 + (g \div 4) * 32 + (b \div 8)) % 65536

\* RGBColor(r, g, b): SetColor stores the channels and packs them.
RGBColor(rIn, gIn, bIn) ==
    [r |-> rIn, g |-> gIn, b |-> bIn, color |-> Pack(rIn, gIn, bIn)]

\* The lambda of Add: c + value is an int, converted to the uint8_t
\* parameter of Constrain<uint8_t> before it is constrained to 0..255.
AddChannel(c, value) ==
    Constrain(Uint8(c + value), 0, 255)

Add(this, value) ==
    RGBColor(AddChannel(this.r, value), AddChannel(this.g, value), AddChannel(this.b, value))

(***************************************************************************)
(* Inputs                                                                  *)
(***************************************************************************)
MaxXY ==
    2

V3(x, y, z) ==
    Vector3D(F(x), F(y), F(z))

Vertices ==
    {V3(0, 0, 5), V3(1, 0, 5), V3(0, 1, 5), V3(1, 1, 6), V3(2, 2, 7)}

\* Every vertex triple without UVs, and one triple with UVs.
SourceTriangles ==
    [p1 : Vertices, p2 : Vertices, p3 : Vertices, hasUV : {FALSE}]
        \cup {[p1 |-> V3(0, 0, 5), p2 |-> V3(1, 0, 5), p3 |-> V3(0, 1, 5), hasUV |-> TRUE]}

Identity ==
    Quaternion(F(1), F(0), F(0), F(0))

\* Half turn about the X axis.
HalfTurnX ==
    Quaternion(F(0), F(1), F(0), F(0))

\* Third of a turn about the axis (1, 1, 1).
ThirdTurn ==
    Quaternion(Frac(1, 2), Frac(1, 2), Frac(1, 2), Frac(1, 2))

Uniform(s) ==
    Vector3D(s, s, s)

Transform(position, rotation, scale) ==
    [position |-> position, rotation |-> rotation, scale |-> scale]

\* The camera states: <<camTransform, lookDirection>>.
Cameras ==
    {<<Transform(V3(0, 0, 0), Identity, Uniform(s)), Identity>> :
        s \in {F(1), Frac(1, 4), F(32), Frac(1, 32)}}
        \cup {<<Transform(V3(1, 0, 0), Identity, Uniform(F(1))), Identity>>,
              <<Transform(V3(0, 0, 0), HalfTurnX, Uniform(F(1))), Identity>>,
              <<Transform(V3(0, 0, 0), HalfTurnX, Vector3D(F(1), F(2), F(4))), ThirdTurn>>,
              <<Transform(V3(0, 0, 0), Identity, Vector3D(F(10), F(100), F(1))), Identity>>,
              <<Transform(V3(0, 0, 0), Identity, Vector3D(Frac(1, 10), Frac(1, 100), F(1))), Identity>>}

QueryPoints ==
    {Vector2D(F(i), F(j)) : i, j \in 0 .. MaxXY} \cup {tri.p1, tri.p2, tri.p3}

\* What the caller's u, v, w may hold before a query.
Junk ==
    {<<F(0), F(0), F(0)>>, <<F(7), F(-7), F(1)>>}

Intervals ==
    {<<F(-1), F(40)>>, <<F(-3), F(-2)>>, <<F(1), F(3)>>}

QueryRects ==
    {Rectangle2D(Vector2D(ix[1], iy[1]), Vector2D(ix[2], iy[2])) : ix, iy \in Intervals}

Channels ==
    {0, 1, 55, 100, 200, 255}

(***************************************************************************)
(* The state machine of one RasterTriangle2D object                        *)
(***************************************************************************)
NoCall ==
    [op |-> "none", x |-> F(0), y |-> F(0),
     rect |-> Rectangle2D(Vector2D(F(0), F(0)), Vector2D(F(0), F(0))),
     ret |-> FALSE, written |-> FALSE, u |-> F(0), v |-> F(0), w |-> F(0),
     camTransform |-> Transform(V3(0, 0, 0), Identity, Uniform(F(1))),
     lookDirection |-> Identity,
     before |-> DefaultTriangle, again |-> FALSE]

Black ==
    RGBColor(0, 0, 0)

Init ==
    /\ pc = "new"
    /\ tri = DefaultTriangle
    /\ calculated = FALSE
    /\ call = NoCall
    /\ rgb = Black
    /\ sum = Black

ConstructDefault ==
    /\ pc = "new"
    /\ pc' = "live"
    /\ tri' = DefaultTriangle
    /\ calculated' = FALSE
    /\ call' = [NoCall EXCEPT !.op = "RasterTriangle2D()"]
    /\ UNCHANGED <<rgb, sum>>

ConstructProjected ==
    /\ pc = "new"
    /\ \E camera \in Cameras, sourceTriangle \in SourceTriangles :
          /\ tri' = ProjectedTriangle(camera[1], camera[2], sourceTriangle, "mat")
          /\ call' = [NoCall EXCEPT !.op = "RasterTriangle2D(...)",
                                    !.camTransform = camera[1],
                                    !.lookDirection = camera[2]]
    /\ pc' = "live"
    /\ calculated' = TRUE
    /\ UNCHANGED <<rgb, sum>>

Recalculate ==
    /\ pc = "live"
    /\ tri' = CalculateBoundsAndDenominator(tri)
    /\ calculated' = TRUE
    /\ call' = [NoCall EXCEPT !.op = "CalculateBoundsAndDenominator",
                              !.before = tri, !.again = calculated]
    /\ UNCHANGED <<pc, rgb, sum>>

Barycentric ==
    /\ pc = "live"
    /\ \E q \in QueryPoints, in \in Junk :
          LET r == GetBarycentricCoords(tri, q.X, q.Y, in[1], in[2], in[3])
          IN  call' = [NoCall EXCEPT !.op = "GetBarycentricCoords",
                                     !.x = q.X, !.y = q.Y,
                                     !.ret = r.ret, !.written = r.written,
                                     !.u = r.u, !.v = r.v, !.w = r.w]
    /\ UNCHANGED <<pc, tri, calculated, rgb, sum>>

Overlap ==
    /\ pc = "live"
    /\ \E otherBounds \in QueryRects :
          call' = [NoCall EXCEPT !.op = "Overlaps", !.rect = otherBounds,
                                 !.ret = Overlaps(tri, otherBounds)]
    /\ UNCHANGED <<pc, tri, calculated, rgb, sum>>

Next ==
    \/ ConstructDefault
    \/ ConstructProjected
    \/ Recalculate
    \/ Barycentric
    \/ Overlap

Spec ==
    Init /\ [][Next]_vars

(***************************************************************************)
(* The state machine of one RGBColor object                                *)
(***************************************************************************)
ConstructColor ==
    /\ pc = "new"
    /\ pc' = "colour"
    /\ \E rIn \in Channels, gIn \in Channels, bIn \in Channels :
          rgb' = RGBColor(rIn, gIn, bIn)
    /\ call' = [NoCall EXCEPT !.op = "RGBColor(r, g, b)"]
    /\ UNCHANGED <<tri, calculated, sum>>

AddValue ==
    /\ pc = "colour"
    /\ \E value \in Channels :
          /\ sum' = Add(rgb, value)
          /\ call' = [NoCall EXCEPT !.op = "Add", !.x = F(value), !.before = rgb]
    /\ UNCHANGED <<pc, tri, calculated, rgb>>

NextColor ==
    \/ ConstructColor
    \/ AddValue

SpecColor ==
    Init /\ [][NextColor]_vars

(***************************************************************************)
(* Vocabulary of the properties, written from the vertices alone           *)
(***************************************************************************)
Live ==
    pc = "live"

Queried ==
    Live /\ call.op = "GetBarycentricCoords"

\* det = v0.X * v1.Y - v1.X * v0.Y with v0 = p2 - p1, v1 = p3 - p1.
Det(t) ==
    FSub(FMul(FSub(t.p2.X, t.p1.X), FSub(t.p3.Y, t.p1.Y)),
         FMul(FSub(t.p3.X, t.p1.X), FSub(t.p2.Y, t.p1.Y)))

NonDegenerate(t) ==
    FGt(FAbs(Det(t)), EPSILON)

Pt(x, y) ==
    Vector2D(F(x), F(y))

\* The barycentric coordinates of (x, y) by the formula with division by det.
VOf(t, x, y) ==
    FDiv(FSub(FMul(FSub(x, t.p1.X), FSub(t.p3.Y, t.p1.Y)),
              FMul(FSub(t.p3.X, t.p1.X), FSub(y, t.p1.Y))), Det(t))

WOf(t, x, y) ==
    FDiv(FSub(FMul(FSub(t.p2.X, t.p1.X), FSub(y, t.p1.Y)),
              FMul(FSub(x, t.p1.X), FSub(t.p2.Y, t.p1.Y))), Det(t))

UOf(t, x, y) ==
    FSub(FSub(F(1), VOf(t, x, y)), WOf(t, x, y))

FormulaHolds ==
    /\ call.v = VOf(tri, call.x, call.y)
    /\ call.w = WOf(tri, call.x, call.y)
    /\ call.u = UOf(tri, call.x, call.y)
    /\ call.ret = (FGe(call.u, F(0)) /\ FGe(call.v, F(0)) /\ FGe(call.w, F(0)))

AtVertex(p) ==
    call.x = p.X /\ call.y = p.Y

Coords(u, v, w) ==
    call.u = F(u) /\ call.v = F(v) /\ call.w = F(w)

VertexExact ==
    /\ AtVertex(tri.p1) => Coords(1, 0, 0) /\ call.ret
    /\ AtVertex(tri.p2) => Coords(0, 1, 0) /\ call.ret
    /\ AtVertex(tri.p3) => Coords(0, 0, 1) /\ call.ret

SumsToOne ==
    FAdd(FAdd(call.u, call.v), call.w) = F(1)

\* b.min is the componentwise minimum and b.max the componentwise maximum
\* of the three vertices.
Tight(t) ==
    LET xs == {t.p1.X, t.p2.X, t.p3.X}
        ys == {t.p1.Y, t.p2.Y, t.p3.Y}
    IN  /\ t.bounds.min.X \in xs /\ \A x \in xs : FLe(t.bounds.min.X, x)
        /\ t.bounds.min.Y \in ys /\ \A y \in ys : FLe(t.bounds.min.Y, y)
        /\ t.bounds.max.X \in xs /\ \A x \in xs : FLe(x, t.bounds.max.X)
        /\ t.bounds.max.Y \in ys /\ \A y \in ys : FLe(y, t.bounds.max.Y)

StrictlyContains(outer, inner) ==
    /\ FLt(outer.min.X, inner.min.X) /\ FLt(inner.max.X, outer.max.X)
    /\ FLt(outer.min.Y, inner.min.Y) /\ FLt(inner.max.Y, outer.max.Y)

Disjoint(a, b) ==
    \/ FLt(a.max.X, b.min.X) \/ FLt(b.max.X, a.min.X)
    \/ FLt(a.max.Y, b.min.Y) \/ FLt(b.max.Y, a.min.Y)

InRect(p, r) ==
    /\ FLe(r.min.X, p.X) /\ FLe(p.X, r.max.X)
    /\ FLe(r.min.Y, p.Y) /\ FLe(p.Y, r.max.Y)

\* Twice the signed area of the triangle (a, b, c).
Cross(a, b, c) ==
    FSub(FMul(FSub(b.X, a.X), FSub(c.Y, a.Y)), FMul(FSub(c.X, a.X), FSub(b.Y, a.Y)))

\* p lies in the closed triangle t, decided by the orientation of p against
\* each edge; a degenerate triangle is represented by its vertices.
InTriangle(p, t) ==
    LET d1 == Cross(t.p1, t.p2, p)
        d2 == Cross(t.p2, t.p3, p)
        d3 == Cross(t.p3, t.p1, p)
    IN  \/ p \in {t.p1, t.p2, t.p3}
        \/ /\ Det(t) # F(0)
           /\ \/ FGe(d1, F(0)) /\ FGe(d2, F(0)) /\ FGe(d3, F(0))
              \/ FLe(d1, F(0)) /\ FLe(d2, F(0)) /\ FLe(d3, F(0))

TriangleMeets(t, r) ==
    \E p \in {Pt(i, j) : i, j \in -1 .. MaxXY + 1} \cup {t.p1, t.p2, t.p3} :
        InTriangle(p, t) /\ InRect(p, r)

\* The rotation matrix of the unit quaternion q, applied to v.
MatrixRotate(q, v) ==
    LET two == F(2)
        xx == FMul(q.X, q.X)
        yy == FMul(q.Y, q.Y)
        zz == FMul(q.Z, q.Z)
        xy == FMul(q.X, q.Y)
        xz == FMul(q.X, q.Z)
        yz == FMul(q.Y, q.Z)
        wx == FMul(q.W, q.X)
        wy == FMul(q.W, q.Y)
        wz == FMul(q.W, q.Z)
        row(a, b, c) == FAdd(FAdd(FMul(a, v.X), FMul(b, v.Y)), FMul(c, v.Z))
    IN  Vector3D(
            row(FSub(F(1), FMul(two, FAdd(yy, zz))), FMul(two, FSub(xy, wz)), FMul(two, FAdd(xz, wy))),
            row(FMul(two, FAdd(xy, wz)), FSub(F(1), FMul(two, FAdd(xx, zz))), FMul(two, FSub(yz, wx))),
            row(FMul(two, FSub(xz, wy)), FMul(two, FAdd(yz, wx)), FSub(F(1), FMul(two, FAdd(xx, yy)))))

\* The camera-space image of source vertex i of the construction recorded in
\* call: the rotation Conjugate(rotation * look) = Conjugate(look) *
\* Conjugate(rotation), applied as a matrix to vertex - position, then divided
\* by the scale.
ScreenPoint(i) ==
    LET cam == call.camTransform
        inverse == Multiply(Conjugate(call.lookDirection), Conjugate(cam.rotation))
        r == MatrixRotate(inverse, V3Sub(tri.t3[i], cam.position))
    IN  Vector3D(FDiv(r.X, cam.scale.X), FDiv(r.Y, cam.scale.Y), FDiv(r.Z, cam.scale.Z))

ProjectedNow ==
    Live /\ call.op = "RasterTriangle2D(...)"

ExampleProjection ==
    /\ ProjectedNow
    /\ call.camTransform = Transform(V3(0, 0, 0), Identity, Uniform(F(1)))
    /\ call.lookDirection = Identity
    /\ tri.t3 = <<V3(0, 0, 5), V3(1, 0, 5), V3(0, 1, 5)>>

Clamp255(n) ==
    IF n > 255 THEN 255 ELSE n

(***************************************************************************)
(* Properties                                                              *)
(***************************************************************************)
\* C1: a triangle with |det| <= EPSILON stores the denominator 0 and every
\* query on it returns false; the stored denominator is 0 only when
\* |det| <= EPSILON.
C1_DegenerateSentinel ==
    Live =>
        /\ ~NonDegenerate(tri) => tri.denominator = F(0) /\ (Queried => ~call.ret)
        /\ tri.denominator = F(0) => ~NonDegenerate(tri)

C1_Witness ==
    /\ Queried
    /\ tri.p1 = Pt(0, 0) /\ tri.p2 = Pt(1, 1) /\ tri.p3 = Pt(2, 2)
    /\ tri.denominator = F(0)
    /\ ~call.ret

\* C2: a query takes the degenerate early return exactly when the stored
\* inverse denominator is the sentinel 0; in particular never for a
\* triangle with |det| > EPSILON.
C2_EarlyReturnOnlyForSentinel ==
    Queried =>
        /\ ~call.written <=> tri.denominator = F(0)
        /\ NonDegenerate(tri) => call.written

\* C3: for a non-degenerate triangle a query outputs v, w, u by the formula
\* and returns true exactly when all three are non-negative.
C3_BarycentricFormula ==
    Queried /\ NonDegenerate(tri) => FormulaHolds

\* C5: for a non-degenerate triangle a query at p1, p2, p3 yields (1,0,0),
\* (0,1,0), (0,0,1) and returns true.
C5_VertexExactness ==
    Queried /\ NonDegenerate(tri) => VertexExact

\* C6: for a non-degenerate triangle the coordinates output by a query sum
\* to 1.
C6_AffinePartition ==
    Queried /\ NonDegenerate(tri) => SumsToOne

\* What the guards of lines 53 and 70 do together: a query returns early
\* exactly when |det| <= EPSILON or |det| > 1 / EPSILON.
EarlyReturnExactly ==
    Queried =>
        (~call.written <=>
            \/ FLe(FAbs(Det(tri)), EPSILON)
            \/ FGt(FAbs(Det(tri)), FDiv(F(1), EPSILON)))

\* The two ends of the range in which queries compute u, v, w.
AtEpsilon ==
    Queried /\ FAbs(Det(tri)) = EPSILON /\ ~call.written

AtInverseEpsilon ==
    Queried /\ FAbs(Det(tri)) = FDiv(F(1), EPSILON) /\ call.written

\* What C3, C5 and C6 state holds of every query that computed u, v, w.
ComputedQueriesAreExact ==
    Queried /\ call.written =>
        /\ NonDegenerate(tri)
        /\ FormulaHolds
        /\ VertexExact
        /\ SumsToOne

ExampleInterpolation ==
    /\ Queried
    /\ tri.p1 = Pt(0, 0) /\ tri.p2 = Pt(4, 0) /\ tri.p3 = Pt(0, 4)
    /\ call.x = F(1) /\ call.y = F(1)

\* The interpolation example: u = 0.5, v = 0.25, w = 0.25, inside.
ExampleInterpolationResult ==
    ExampleInterpolation =>
        call.u = Frac(1, 2) /\ call.v = Frac(1, 4) /\ call.w = Frac(1, 4) /\ call.ret

\* C4 as stated: the bounds are tight in every state of a constructed
\* triangle, whichever constructor built it.
C4_TightAlways ==
    Live => Tight(tri)

\* C4 as amended: the bounds are tight once CalculateBoundsAndDenominator has
\* run on the triangle (the projecting constructor runs it).
C4_TightOnceCalculated ==
    Live /\ calculated => Tight(tri)

C4_Witness ==
    /\ Live /\ calculated
    /\ tri.p1 = Pt(2, 2) /\ tri.p2 = Pt(0, 1) /\ tri.p3 = Pt(1, 0)
    /\ tri.bounds = Rectangle2D(Pt(0, 0), Pt(2, 2))

\* C7: the projecting constructor maps source vertex i to
\* Conjugate(rotation * look).RotateVector(vertex - position) / scale, takes
\* its X, Y as p_i in the source order and the mean of the three Z as
\* averageDepth; the example projects to (0,0), (1,0), (0,1) at depth 5.
C7_Projection ==
    /\ ProjectedNow =>
          /\ tri.p1 = Vector2D(ScreenPoint(1).X, ScreenPoint(1).Y)
          /\ tri.p2 = Vector2D(ScreenPoint(2).X, ScreenPoint(2).Y)
          /\ tri.p3 = Vector2D(ScreenPoint(3).X, ScreenPoint(3).Y)
          /\ FMul(F(3), tri.averageDepth)
                = FAdd(FAdd(ScreenPoint(1).Z, ScreenPoint(2).Z), ScreenPoint(3).Z)
    /\ ExampleProjection =>
          /\ tri.p1 = Pt(0, 0) /\ tri.p2 = Pt(1, 0) /\ tri.p3 = Pt(0, 1)
          /\ tri.averageDepth = F(5)

C7_Witness ==
    /\ ProjectedNow
    /\ call.camTransform.rotation = HalfTurnX
    /\ call.lookDirection = ThirdTurn
    /\ tri.t3 = <<V3(1, 0, 5), V3(0, 1, 5), V3(2, 2, 7)>>
    /\ NonDegenerate(tri)

\* C8: Overlaps is the intersection test of the cached bounds with the query
\* rectangle; it returns true for every rectangle that strictly contains the
\* bounds and for every rectangle the triangle itself meets.
C8_OverlapSoundness ==
    Live /\ call.op = "Overlaps" =>
        /\ call.ret <=> ~Disjoint(tri.bounds, call.rect)
        /\ StrictlyContains(call.rect, tri.bounds) => call.ret
        /\ TriangleMeets(tri, call.rect) => call.ret

C8_Witness ==
    /\ Live /\ call.op = "Overlaps" /\ calculated
    /\ NonDegenerate(tri)
    /\ StrictlyContains(call.rect, tri.bounds)
    /\ call.ret

\* C9: CalculateBoundsAndDenominator never changes the vertices, the depth,
\* hasUV or the references; a call on a triangle already calculated leaves
\* v0, v1, the denominator and the bounds as they were; and after any call
\* these four are determined by the vertices alone.
C9_RecalculationIdempotent ==
    Live /\ call.op = "CalculateBoundsAndDenominator" =>
        /\ \A f \in {"p1", "p2", "p3", "averageDepth", "hasUV", "t3", "normal", "material", "uv"} :
              tri[f] = call.before[f]
        /\ call.again =>
              \A f \in {"v0", "v1", "denominator", "bounds"} : tri[f] = call.before[f]
        /\ tri.v0 = Vector2D(FSub(tri.p2.X, tri.p1.X), FSub(tri.p2.Y, tri.p1.Y))
        /\ tri.v1 = Vector2D(FSub(tri.p3.X, tri.p1.X), FSub(tri.p3.Y, tri.p1.Y))
        /\ FMul(tri.denominator, Det(tri)) = (IF NonDegenerate(tri) THEN F(1) ELSE F(0))
        /\ Tight(tri)

C9_Witness ==
    /\ Live /\ call.op = "CalculateBoundsAndDenominator"
    /\ call.again
    /\ tri.denominator # F(0)

\* C10: Add returns the colour whose channels are the receiver's plus value,
\* saturated at 255, packed as RGB565, and leaves the receiver unchanged.
C10_AddSaturates ==
    pc = "colour" /\ call.op = "Add" =>
        LET value == call.x[1]
        IN  /\ sum.r = Clamp255(rgb.r + value)
            /\ sum.g = Clamp255(rgb.g + value)
            /\ sum.b = Clamp255(rgb.b + value)
            /\ sum.color = (sum.r \div 8) * 2048 + (sum.g \div 4) * 32 + (sum.b \div 8)
            /\ rgb = call.before

\* What Add does: each channel is the sum modulo 256.
AddWraps ==
    pc = "colour" /\ call.op = "Add" =>
        LET value == call.x[1]
        IN  /\ sum.r = (rgb.r + value) % 256
            /\ sum.g = (rgb.g + value) % 256
            /\ sum.b = (rgb.b + value) % 256
            /\ sum.color = (sum.r \div 8) * 2048 + (sum.g \div 4) * 32 + (sum.b \div 8)
            /\ rgb = call.before

====
